---- MODULE Spec2Model ----
(***************************************************************************)
(* Model of easyrest (src/api.go): RegisterAPI and the eight request       *)
(* handlers it registers for one generic Api[T, D] descriptor.             *)
(*                                                                         *)
(* The descriptor's functions (Find, FindAll, FindAllPage, Search, Mutate, *)
(* Create, Delete, sub-entity getters, Dto, Validator) are supplied by the *)
(* caller.  What they return in one request is drawn from small sets and   *)
(* kept in the request record `req`; every call a handler makes to one of  *)
(* them is appended to `trace` in program order.                           *)
(***************************************************************************)
EXTENDS Integers, Sequences, FiniteSets, TLC

VARIABLES
  api,      \* the Api[T, D] descriptor handed to RegisterAPI
  routes,   \* the routes registered on the group, in registration order
  phase,    \* "new" before RegisterAPI, "idle" between requests, "done" after a handler returned
  req,      \* the request being served and what the collaborators answer in it
  resp,     \* the response the handler produced
  trace     \* the collaborator calls the handler made, oldest first

vars == <<api, routes, phase, req, resp, trace>>

-----------------------------------------------------------------------------
(* Bounds of the model *)

NumItems == 2   \* distinct entities of type T (and values of type D)
MaxList  == 1   \* longest slice a collaborator returns
MaxSub   == 2   \* most sub-entities a descriptor declares

-----------------------------------------------------------------------------
(* Values *)

\* An internal entity of type T, a transport value of type D, an element of []any.
T(i)   == [kind |-> "T", id |-> i]
D(i)   == [kind |-> "D", id |-> i]
AnyV(i) == [kind |-> "any", id |-> i]

Items   == {T(i) : i \in 1..NumItems}
DVals   == {D(i) : i \in 1..NumItems}
AnyVals == {AnyV(i) : i \in 1..NumItems}

NoItem == [kind |-> "T", id |-> 0]   \* the zero value of T
NoD    == [kind |-> "D", id |-> 0]   \* the zero value of D

SeqsUpTo(S, n) == UNION {[1..k -> S] : k \in 0..n}

\* Path segments are strings of characters, one character per element.
Seg_page   == <<"p", "a", "g", "e">>
Seg_filter == <<"f", "i", "l", "t", "e", "r">>
Seg_tags   == <<"t", "a", "g", "s">>
Seg_notes  == <<"n", "o", "t", "e", "s">>
Seg_id     == <<":", "i", "d">>

SubPaths == {Seg_tags, Seg_notes}

\* Values of the :id path parameter that requests carry.
Key_7    == <<"7">>
Key_big  == <<"9", "2", "2", "3", "3", "7", "2", "0", "3", "6",
              "8", "5", "4", "7", "7", "5", "8", "0", "8">>
Key_negbig == <<"-", "9", "2", "2", "3", "3", "7", "2", "0", "3", "6",
                "8", "5", "4", "7", "7", "5", "8", "0", "9">>
Keys     == {Key_7, Key_big, Key_negbig, Seg_page}

Methods == {"GET", "POST", "PUT", "DELETE"}

\* Request paths below the group's prefix: "/", "/a" and "/a/b".
Paths == {<<>>}
           \cup {<<k>> : k \in Keys \cup {Seg_filter}}
           \cup {<<k, s>> : k \in Keys, s \in Keys \cup SubPaths}

-----------------------------------------------------------------------------
(* The Action tags (iota) and the status codes the handlers send *)

ActionGetAll == 0
ActionGetOne == 1
ActionMutate == 2
ActionCreate == 3
ActionDelete == 4

StatusOK                  == 200
StatusBadRequest          == 400
StatusUnauthorized        == 401
StatusNotFound            == 404
StatusInternalServerError == 500

-----------------------------------------------------------------------------
(* strconv.ParseInt(s, 10, 64) on a string of characters.  An int64 is kept *)
(* as its sign and its decimal digits without leading zeros.                *)

Digits == {"0", "1", "2", "3", "4", "5", "6", "7", "8", "9"}

DigitVal(c) ==
  CASE c = "0" -> 0 [] c = "1" -> 1 [] c = "2" -> 2 [] c = "3" -> 3 [] c = "4" -> 4
    [] c = "5" -> 5 [] c = "6" -> 6 [] c = "7" -> 7 [] c = "8" -> 8 [] c = "9" -> 9

Int64(neg, digits) == [neg |-> neg, digits |-> digits]
Zero64 == Int64(FALSE, <<"0">>)
MaxInt64Digits == <<"9", "2", "2", "3", "3", "7", "2", "0", "3", "6",
                    "8", "5", "4", "7", "7", "5", "8", "0", "7">>
MinInt64Digits == <<"9", "2", "2", "3", "3", "7", "2", "0", "3", "6",
                    "8", "5", "4", "7", "7", "5", "8", "0", "8">>

RECURSIVE StripZeros(_)
StripZeros(ds) ==
  IF Len(ds) > 1 /\ Head(ds) = "0" THEN StripZeros(Tail(ds)) ELSE ds

\* a > b for two digit strings without leading zeros
RECURSIVE DigitsGreater(_, _)
DigitsGreater(a, b) ==
  IF Len(a) # Len(b) THEN Len(a) > Len(b)
  ELSE IF a = <<>> THEN FALSE
  ELSE IF Head(a) # Head(b) THEN DigitVal(Head(a)) > DigitVal(Head(b))
  ELSE DigitsGreater(Tail(a), Tail(b))

\* [val, ok]: ok is err == nil.  A syntax error leaves 0, a range error the
\* nearest int64.
ParseInt(s) ==
  LET signed == s # <<>> /\ Head(s) \in {"+", "-"}
      neg    == s # <<>> /\ Head(s) = "-"
      ds     == IF signed THEN Tail(s) ELSE s
  IN  IF ds = <<>> \/ \E i \in 1..Len(ds) : ds[i] \notin Digits
        THEN [val |-> Zero64, ok |-> FALSE]
      ELSE LET n == StripZeros(ds) IN
        IF ~neg /\ DigitsGreater(n, MaxInt64Digits)
          THEN [val |-> Int64(FALSE, MaxInt64Digits), ok |-> FALSE]
        ELSE IF neg /\ DigitsGreater(n, MinInt64Digits)
          THEN [val |-> Int64(TRUE, MinInt64Digits), ok |-> FALSE]
        ELSE [val |-> Int64(neg /\ n # <<"0">>, n), ok |-> TRUE]

-----------------------------------------------------------------------------
(* The descriptor *)

\* A function field is TRUE when it is non-nil.  Find, FindAll, FindAllPage
\* and Dto have no nil check anywhere and are always supplied.
Apis ==
  [Mutate : BOOLEAN, Create : BOOLEAN, Search : BOOLEAN, Delete : BOOLEAN,
   Validator : BOOLEAN, SubEntities : SeqsUpTo(SubPaths, MaxSub)]

-----------------------------------------------------------------------------
(* RegisterAPI *)

Route(method, path, handler, sub) ==
  [method |-> method, path |-> path, handler |-> handler, sub |-> sub]

\* a variant that registers the sub-entity routes last declared first
SubRoutes_Reversed(a) ==
  [i \in 1..Len(a.SubEntities) |->
     Route("GET", <<Seg_id, a.SubEntities[Len(a.SubEntities) + 1 - i]>>,
           "getSubEntity", Len(a.SubEntities) + 1 - i)]

SubRoutes(a) ==
  [i \in 1..Len(a.SubEntities) |->
     Route("GET", <<Seg_id, a.SubEntities[i]>>, "getSubEntity", i)]

\* a variant that registers the create route on Create instead of Mutate
CreateRegistered_IfCreate(a) == a.Create

CreateRegistered(a) == a.Mutate
SearchRegistered(a) == a.Search
MutateRegistered(a) == a.Mutate
DeleteRegistered(a) == a.Delete

RegisterRoutes(a) ==
     <<Route("GET", <<>>, "getAll", 0),
       Route("GET", <<Seg_page, Seg_id>>, "getAllPage", 0)>>
  \o (IF CreateRegistered(a) THEN <<Route("POST", <<>>, "createOne", 0)>> ELSE <<>>)
  \o (IF SearchRegistered(a) THEN <<Route("POST", <<Seg_filter>>, "search", 0)>> ELSE <<>>)
  \o SubRoutes(a)
  \o <<Route("GET", <<Seg_id>>, "getOne", 0)>>
  \o (IF MutateRegistered(a) THEN <<Route("PUT", <<Seg_id>>, "mutateOne", 0)>> ELSE <<>>)
  \o (IF DeleteRegistered(a) THEN <<Route("DELETE", <<Seg_id>>, "deleteOne", 0)>> ELSE <<>>)

\* A route matches a request of its method whose path has the same number of
\* segments, each equal to the route's literal or standing for its parameter.
Matches(rt, method, path) ==
  /\ rt.method = method
  /\ Len(rt.path) = Len(path)
  /\ \A i \in 1..Len(path) : rt.path[i] = Seg_id \/ rt.path[i] = path[i]

\* The first matching route in registration order, 0 when none matches.
Dispatch(rts, method, path) ==
  LET hits == {i \in 1..Len(rts) : Matches(rts[i], method, path)}
  IN  IF hits = {} THEN 0 ELSE CHOOSE i \in hits : \A j \in hits : i <= j

\* c.Params("id")
Params(rt, path) ==
  LET at == {i \in 1..Len(rt.path) : rt.path[i] = Seg_id}
  IN  IF at = {} THEN <<>> ELSE path[CHOOSE i \in at : TRUE]

-----------------------------------------------------------------------------
(* Calls to the descriptor's functions, as recorded in the trace *)

NoKey == <<>>

Call(fn) ==
  [fn |-> fn, action |-> -1, items |-> <<>>, key |-> NoKey, body |-> NoD,
   token |-> Zero64, sub |-> 0]

FindCall(id)             == [Call("Find") EXCEPT !.key = id]
FindAllCall              == Call("FindAll")
FindAllPageCall(i)       == [Call("FindAllPage") EXCEPT !.token = i]
SearchCall(filter)       == [Call("Search") EXCEPT !.body = filter]
MutateCall(item, d)      == [Call("Mutate") EXCEPT !.items = <<item>>, !.body = d]
CreateCall(d)            == [Call("Create") EXCEPT !.body = d]
DeleteCall(item)         == [Call("Delete") EXCEPT !.items = <<item>>]
GetterCall(sub, item)    == [Call("Get") EXCEPT !.items = <<item>>, !.sub = sub]
DtoCall(item)            == [Call("Dto") EXCEPT !.items = <<item>>]
ValidatorCall(act, its)  == [Call("Validator") EXCEPT !.action = act, !.items = its]

\* api.Dto: the caller's conversion from T to D
Dto(item) == D(item.id)

\* The Dto calls and the []D built by a loop `for _, v := range xs`
DtoCalls(xs) == [i \in 1..Len(xs) |-> DtoCall(xs[i])]
DtoAll(xs)   == [i \in 1..Len(xs) |-> Dto(xs[i])]

-----------------------------------------------------------------------------
(* Responses *)

StatusMessage(code) ==
  CASE code = StatusBadRequest          -> "Bad Request"
    [] code = StatusUnauthorized        -> "Unauthorized"
    [] code = StatusNotFound            -> "Not Found"
    [] code = StatusInternalServerError -> "Internal Server Error"
    [] OTHER                            -> "OK"

Response(code, kind, text, vals) ==
  [status |-> code, body |-> [kind |-> kind, text |-> text, vals |-> vals]]

\* c.SendStatus(code): the status, with its message as the only body
SendStatus(code) == Response(code, "status", StatusMessage(code), <<>>)
\* c.SendString(s)
SendString(text) == Response(StatusOK, "text", text, <<>>)
\* c.JSON(v) for one D, a []D, a Page[T] and a []any
JSONOne(d)     == Response(StatusOK, "json_one", "", <<d>>)
JSONList(ds)   == Response(StatusOK, "json_list", "", ds)
JSONPage(page) == Response(StatusOK, "json_page", "", page)
JSONAny(xs)    == Response(StatusOK, "json_any", "", xs)
\* a call through a nil function value
Panic          == Response(0, "panic", "", <<>>)

NoResponse == Response(0, "none", "", <<>>)

Out(r, t) == [resp |-> r, trace |-> t]

-----------------------------------------------------------------------------
(* The request record: the HTTP request and what the caller's functions     *)
(* answer while it is served.                                              *)

Request(method, path) ==
  [method  |-> method,  path    |-> path,
   bodyOk  |-> TRUE,    body    |-> NoD,     \* c.BodyParser: err == nil, the parsed D
   found   |-> FALSE,   item    |-> NoItem,  \* api.Find: ok, item
   valNone |-> TRUE,    valItem |-> TRUE,    \* api.Validator without / with the item
   err     |-> FALSE,   result  |-> NoItem,  \* Create / Mutate / Delete: err != nil, item
   list    |-> <<>>,                         \* FindAll / FindAllPage / Search: the items
   sub     |-> <<>>]                         \* the sub-entity getter: the []any

NoRequest == Request("", <<>>)

\* api.Validator(c, action, items...)
Validate(e, items) == IF items = <<>> THEN e.valNone ELSE e.valItem

\* api.Validator != nil && !api.Validator(c, action, items...)
Denied(a, e, items) == a.Validator /\ ~Validate(e, items)

\* the Validator call that condition makes, none when Validator is nil
Check(a, act, items) == IF a.Validator THEN <<ValidatorCall(act, items)>> ELSE <<>>

-----------------------------------------------------------------------------
(* Faulty variants of the code, used to show that the properties below      *)
(* depend on it.                                                            *)

\* answers 404 for a missing item without asking the Validator
getOne_NotFoundFirst(a, e, id) ==
  LET t1 == <<FindCall(id)>> IN
  IF ~e.found THEN Out(SendStatus(StatusNotFound), t1)
  ELSE
    LET t2 == t1 \o Check(a, ActionGetOne, <<e.item>>) IN
    IF Denied(a, e, <<e.item>>) THEN Out(SendStatus(StatusUnauthorized), t2)
    ELSE Out(JSONOne(Dto(e.item)), t2 \o <<DtoCall(e.item)>>)

\* asks the Validator before parsing the body
createOne_CheckFirst(a, e) ==
  LET t1 == Check(a, ActionCreate, <<>>) IN
  IF Denied(a, e, <<>>) THEN Out(SendStatus(StatusUnauthorized), t1)
  ELSE IF ~e.bodyOk THEN Out(SendStatus(StatusBadRequest), t1)
  ELSE IF ~a.Create THEN Out(Panic, t1)
  ELSE
    LET t2 == t1 \o <<CreateCall(e.body)>> IN
    IF e.err THEN Out(SendStatus(StatusInternalServerError), t2)
    ELSE Out(JSONOne(Dto(e.result)), t2 \o <<DtoCall(e.result)>>)

\* answers 404 for a missing item without asking the Validator
deleteOne_NotFoundFirst(a, e, id) ==
  LET t1 == <<FindCall(id)>> IN
  IF ~e.found THEN Out(SendStatus(StatusNotFound), t1)
  ELSE
    LET t2 == t1 \o Check(a, ActionDelete, <<e.item>>) IN
    IF Denied(a, e, <<e.item>>) THEN Out(SendStatus(StatusUnauthorized), t2)
    ELSE
      LET t3 == t2 \o <<DeleteCall(e.item)>> IN
      IF e.err THEN Out(SendStatus(StatusInternalServerError), t3)
      ELSE Out(SendString("deleted"), t3)

\* asks the Validator about the found item without passing the item
mutateOne_CheckWithoutItem(a, e, id) ==
  IF ~e.bodyOk THEN Out(SendStatus(StatusBadRequest), <<>>)
  ELSE
    LET t1 == <<FindCall(id)>>
        t2 == t1 \o Check(a, ActionMutate, <<>>)
    IN  IF Denied(a, e, <<>>) THEN Out(SendStatus(StatusUnauthorized), t2)
        ELSE IF ~e.found THEN Out(SendStatus(StatusNotFound), t2)
        ELSE
          LET t3 == t2 \o <<MutateCall(e.item, e.body)>> IN
          IF e.err THEN Out(SendStatus(StatusInternalServerError), t3)
          ELSE Out(JSONOne(Dto(e.result)), t3 \o <<DtoCall(e.result)>>)

\* converts the item Find returned instead of the item Mutate returned
mutateOne_DtoOfFound(a, e, id) ==
  IF ~e.bodyOk THEN Out(SendStatus(StatusBadRequest), <<>>)
  ELSE
    LET t1 == <<FindCall(id)>> IN
    IF ~e.found THEN
      LET t2 == t1 \o Check(a, ActionMutate, <<>>) IN
      IF Denied(a, e, <<>>) THEN Out(SendStatus(StatusUnauthorized), t2)
      ELSE Out(SendStatus(StatusNotFound), t2)
    ELSE
      LET t2 == t1 \o Check(a, ActionMutate, <<e.item>>) IN
      IF Denied(a, e, <<e.item>>) THEN Out(SendStatus(StatusUnauthorized), t2)
      ELSE
        LET t3 == t2 \o <<MutateCall(e.item, e.body)>> IN
        IF e.err THEN Out(SendStatus(StatusInternalServerError), t3)
        ELSE Out(JSONOne(Dto(e.item)), t3 \o <<DtoCall(e.item)>>)

\* answers with the DTO of the deleted item
deleteOne_ReturnsDto(a, e, id) ==
  LET t1 == <<FindCall(id)>> IN
  IF ~e.found THEN
    LET t2 == t1 \o Check(a, ActionDelete, <<>>) IN
    IF Denied(a, e, <<>>) THEN Out(SendStatus(StatusUnauthorized), t2)
    ELSE Out(SendStatus(StatusNotFound), t2)
  ELSE
    LET t2 == t1 \o Check(a, ActionDelete, <<e.item>>) IN
    IF Denied(a, e, <<e.item>>) THEN Out(SendStatus(StatusUnauthorized), t2)
    ELSE
      LET t3 == t2 \o <<DeleteCall(e.item)>> IN
      IF e.err THEN Out(SendStatus(StatusInternalServerError), t3)
      ELSE Out(JSONOne(Dto(e.result)), t3 \o <<DtoCall(e.result)>>)

\* ignores the ok that Find returns
getSubEntity_IgnoresOk(a, e, id, sub) ==
  LET t1 == <<FindCall(id)>>
      t2 == t1 \o Check(a, ActionGetOne, <<e.item>>)
  IN  IF Denied(a, e, <<e.item>>) THEN Out(SendStatus(StatusUnauthorized), t2)
      ELSE Out(JSONAny(e.sub), t2 \o <<GetterCall(sub, e.item)>>)

\* ignores the error Create returns
createOne_DtoOnError(a, e) ==
  IF ~e.bodyOk THEN Out(SendStatus(StatusBadRequest), <<>>)
  ELSE
    LET t1 == Check(a, ActionCreate, <<>>) IN
    IF Denied(a, e, <<>>) THEN Out(SendStatus(StatusUnauthorized), t1)
    ELSE IF ~a.Create THEN Out(Panic, t1)
    ELSE Out(JSONOne(Dto(e.result)), t1 \o <<CreateCall(e.body), DtoCall(e.result)>>)

\* parses the body before asking the Validator
search_ParseFirst(a, e) ==
  IF ~e.bodyOk THEN Out(SendStatus(StatusBadRequest), <<>>)
  ELSE
    LET t1 == Check(a, ActionGetAll, <<>>) IN
    IF Denied(a, e, <<>>) THEN Out(SendStatus(StatusUnauthorized), t1)
    ELSE Out(JSONList(DtoAll(e.list)), t1 \o <<SearchCall(e.body)>> \o DtoCalls(e.list))

\* fetches the items before asking the Validator
getAll_FetchFirst(a, e) ==
  LET t1 == <<FindAllCall>> \o Check(a, ActionGetAll, <<>>) IN
  IF Denied(a, e, <<>>) THEN Out(SendStatus(StatusUnauthorized), t1)
  ELSE Out(JSONList(DtoAll(e.list)), t1 \o DtoCalls(e.list))

\* answers 400 when the page token does not parse
getAllPage_RejectBadToken(a, e, id) ==
  LET p  == ParseInt(id)
      t1 == Check(a, ActionGetAll, <<>>)
  IN  IF ~p.ok THEN Out(SendStatus(StatusBadRequest), <<>>)
      ELSE IF Denied(a, e, <<>>) THEN Out(SendStatus(StatusUnauthorized), t1)
      ELSE Out(JSONPage(e.list), t1 \o <<FindAllPageCall(p.val)>>)

\* looks the item up before parsing the body
mutateOne_LookupFirst(a, e, id) ==
  LET t1 == <<FindCall(id)>> IN
  IF ~e.bodyOk THEN Out(SendStatus(StatusBadRequest), t1)
  ELSE IF ~e.found THEN
    LET t2 == t1 \o Check(a, ActionMutate, <<>>) IN
    IF Denied(a, e, <<>>) THEN Out(SendStatus(StatusUnauthorized), t2)
    ELSE Out(SendStatus(StatusNotFound), t2)
  ELSE
    LET t2 == t1 \o Check(a, ActionMutate, <<e.item>>) IN
    IF Denied(a, e, <<e.item>>) THEN Out(SendStatus(StatusUnauthorized), t2)
    ELSE
      LET t3 == t2 \o <<MutateCall(e.item, e.body)>> IN
      IF e.err THEN Out(SendStatus(StatusInternalServerError), t3)
      ELSE Out(JSONOne(Dto(e.result)), t3 \o <<DtoCall(e.result)>>)

\* asks the Validator with the tag of update
deleteOne_MutateTag(a, e, id) ==
  LET t1 == <<FindCall(id)>> IN
  IF ~e.found THEN
    LET t2 == t1 \o Check(a, ActionDelete, <<>>) IN
    IF Denied(a, e, <<>>) THEN Out(SendStatus(StatusUnauthorized), t2)
    ELSE Out(SendStatus(StatusNotFound), t2)
  ELSE
    LET t2 == t1 \o Check(a, ActionMutate, <<e.item>>) IN
    IF Denied(a, e, <<e.item>>) THEN Out(SendStatus(StatusUnauthorized), t2)
    ELSE
      LET t3 == t2 \o <<DeleteCall(e.item)>> IN
      IF e.err THEN Out(SendStatus(StatusInternalServerError), t3)
      ELSE Out(SendString("deleted"), t3)

-----------------------------------------------------------------------------
(* The handlers: each yields the response and the calls made, in order *)

getAll(a, e) ==
  LET t1 == Check(a, ActionGetAll, <<>>) IN
  IF Denied(a, e, <<>>) THEN Out(SendStatus(StatusUnauthorized), t1)
  ELSE Out(JSONList(DtoAll(e.list)), t1 \o <<FindAllCall>> \o DtoCalls(e.list))

getAllPage(a, e, id) ==
  LET i  == ParseInt(id).val
      t1 == Check(a, ActionGetAll, <<>>)
  IN  IF Denied(a, e, <<>>) THEN Out(SendStatus(StatusUnauthorized), t1)
      ELSE Out(JSONPage(e.list), t1 \o <<FindAllPageCall(i)>>)

search(a, e) ==
  LET t1 == Check(a, ActionGetAll, <<>>) IN
  IF Denied(a, e, <<>>) THEN Out(SendStatus(StatusUnauthorized), t1)
  ELSE IF ~e.bodyOk THEN Out(SendStatus(StatusBadRequest), t1)
  ELSE Out(JSONList(DtoAll(e.list)), t1 \o <<SearchCall(e.body)>> \o DtoCalls(e.list))

getOne(a, e, id) ==
  LET t1 == <<FindCall(id)>> IN
  IF ~e.found THEN
    LET t2 == t1 \o Check(a, ActionGetOne, <<>>) IN
    IF Denied(a, e, <<>>) THEN Out(SendStatus(StatusUnauthorized), t2)
    ELSE Out(SendStatus(StatusNotFound), t2)
  ELSE
    LET t2 == t1 \o Check(a, ActionGetOne, <<e.item>>) IN
    IF Denied(a, e, <<e.item>>) THEN Out(SendStatus(StatusUnauthorized), t2)
    ELSE Out(JSONOne(Dto(e.item)), t2 \o <<DtoCall(e.item)>>)

createOne(a, e) ==
  IF ~e.bodyOk THEN Out(SendStatus(StatusBadRequest), <<>>)
  ELSE
    LET t1 == Check(a, ActionCreate, <<>>) IN
    IF Denied(a, e, <<>>) THEN Out(SendStatus(StatusUnauthorized), t1)
    ELSE IF ~a.Create THEN Out(Panic, t1)
    ELSE
      LET t2 == t1 \o <<CreateCall(e.body)>> IN
      IF e.err THEN Out(SendStatus(StatusInternalServerError), t2)
      ELSE Out(JSONOne(Dto(e.result)), t2 \o <<DtoCall(e.result)>>)

mutateOne(a, e, id) ==
  IF ~e.bodyOk THEN Out(SendStatus(StatusBadRequest), <<>>)
  ELSE
    LET t1 == <<FindCall(id)>> IN
    IF ~e.found THEN
      LET t2 == t1 \o Check(a, ActionMutate, <<>>) IN
      IF Denied(a, e, <<>>) THEN Out(SendStatus(StatusUnauthorized), t2)
      ELSE Out(SendStatus(StatusNotFound), t2)
    ELSE
      LET t2 == t1 \o Check(a, ActionMutate, <<e.item>>) IN
      IF Denied(a, e, <<e.item>>) THEN Out(SendStatus(StatusUnauthorized), t2)
      ELSE
        LET t3 == t2 \o <<MutateCall(e.item, e.body)>> IN
        IF e.err THEN Out(SendStatus(StatusInternalServerError), t3)
        ELSE Out(JSONOne(Dto(e.result)), t3 \o <<DtoCall(e.result)>>)

deleteOne(a, e, id) ==
  LET t1 == <<FindCall(id)>> IN
  IF ~e.found THEN
    LET t2 == t1 \o Check(a, ActionDelete, <<>>) IN
    IF Denied(a, e, <<>>) THEN Out(SendStatus(StatusUnauthorized), t2)
    ELSE Out(SendStatus(StatusNotFound), t2)
  ELSE
    LET t2 == t1 \o Check(a, ActionDelete, <<e.item>>) IN
    IF Denied(a, e, <<e.item>>) THEN Out(SendStatus(StatusUnauthorized), t2)
    ELSE
      LET t3 == t2 \o <<DeleteCall(e.item)>> IN
      IF e.err THEN Out(SendStatus(StatusInternalServerError), t3)
      ELSE Out(SendString("deleted"), t3)

getSubEntity(a, e, id, sub) ==
  LET t1 == <<FindCall(id)>> IN
  IF ~e.found THEN
    LET t2 == t1 \o Check(a, ActionGetOne, <<>>) IN
    IF Denied(a, e, <<>>) THEN Out(SendStatus(StatusUnauthorized), t2)
    ELSE Out(SendStatus(StatusNotFound), t2)
  ELSE
    LET t2 == t1 \o Check(a, ActionGetOne, <<e.item>>) IN
    IF Denied(a, e, <<e.item>>) THEN Out(SendStatus(StatusUnauthorized), t2)
    ELSE Out(JSONAny(e.sub), t2 \o <<GetterCall(sub, e.item)>>)

-----------------------------------------------------------------------------
(* What the caller's functions may answer in one request *)

Verdicts(a) == IF a.Validator THEN BOOLEAN ELSE {TRUE}

\* c.BodyParser: <<err == nil, the parsed D>>
Bodies   == {<<TRUE, d>> : d \in DVals} \cup {<<FALSE, NoD>>}
\* api.Find: <<ok, item>>
Lookups  == {<<TRUE, t>> : t \in Items} \cup {<<FALSE, NoItem>>}
\* api.Create, api.Mutate, api.Delete: <<err != nil, item>>
Outcomes == {<<FALSE, t>> : t \in Items} \cup {<<TRUE, NoItem>>}
\* api.FindAll, api.FindAllPage, api.Search
Lists    == SeqsUpTo(Items, MaxList)
\* a sub-entity getter
AnyLists == SeqsUpTo(AnyVals, MaxList)

-----------------------------------------------------------------------------
(* The state machine *)

Init ==
  /\ api \in Apis
  /\ routes = <<>>
  /\ phase = "new"
  /\ req = NoRequest
  /\ resp = NoResponse
  /\ trace = <<>>

RegisterAPI ==
  /\ phase = "new"
  /\ routes' = RegisterRoutes(api)
  /\ phase' = "idle"
  /\ UNCHANGED <<api, req, resp, trace>>

\* The router hands the request to the handler of the first matching route.
Routed(method, path, handler) ==
  /\ Dispatch(routes, method, path) # 0
  /\ routes[Dispatch(routes, method, path)].handler = handler

RouteOf(e) == routes[Dispatch(routes, e.method, e.path)]
IdOf(e)    == Params(RouteOf(e), e.path)

Serve(e, out) ==
  /\ req' = e
  /\ resp' = out.resp
  /\ trace' = out.trace
  /\ phase' = "done"
  /\ UNCHANGED <<api, routes>>

GetAll ==
  /\ phase = "idle"
  /\ \E m \in Methods, p \in Paths :
       /\ Routed(m, p, "getAll")
       /\ \E v \in Verdicts(api), l \in Lists :
            LET e == [Request(m, p) EXCEPT !.valNone = v, !.list = l]
            IN  Serve(e, getAll(api, e))

GetAllPage ==
  /\ phase = "idle"
  /\ \E m \in Methods, p \in Paths :
       /\ Routed(m, p, "getAllPage")
       /\ \E v \in Verdicts(api), l \in Lists :
            LET e == [Request(m, p) EXCEPT !.valNone = v, !.list = l]
            IN  Serve(e, getAllPage(api, e, IdOf(e)))

Search ==
  /\ phase = "idle"
  /\ \E m \in Methods, p \in Paths :
       /\ Routed(m, p, "search")
       /\ \E b \in Bodies, v \in Verdicts(api), l \in Lists :
            LET e == [Request(m, p) EXCEPT !.bodyOk = b[1], !.body = b[2],
                                            !.valNone = v, !.list = l]
            IN  Serve(e, search(api, e))

GetOne ==
  /\ phase = "idle"
  /\ \E m \in Methods, p \in Paths :
       /\ Routed(m, p, "getOne")
       /\ \E f \in Lookups, v0 \in Verdicts(api), v1 \in Verdicts(api) :
            LET e == [Request(m, p) EXCEPT !.found = f[1], !.item = f[2],
                                            !.valNone = v0, !.valItem = v1]
            IN  Serve(e, getOne(api, e, IdOf(e)))

CreateOne ==
  /\ phase = "idle"
  /\ \E m \in Methods, p \in Paths :
       /\ Routed(m, p, "createOne")
       /\ \E b \in Bodies, v \in Verdicts(api), o \in Outcomes :
            LET e == [Request(m, p) EXCEPT !.bodyOk = b[1], !.body = b[2],
                                            !.valNone = v, !.err = o[1], !.result = o[2]]
            IN  Serve(e, createOne(api, e))

MutateOne ==
  /\ phase = "idle"
  /\ \E m \in Methods, p \in Paths :
       /\ Routed(m, p, "mutateOne")
       /\ \E b \in Bodies, f \in Lookups, o \in Outcomes,
             v0 \in Verdicts(api), v1 \in Verdicts(api) :
            LET e == [Request(m, p) EXCEPT !.bodyOk = b[1], !.body = b[2],
                                            !.found = f[1], !.item = f[2],
                                            !.valNone = v0, !.valItem = v1,
                                            !.err = o[1], !.result = o[2]]
            IN  Serve(e, mutateOne(api, e, IdOf(e)))

DeleteOne ==
  /\ phase = "idle"
  /\ \E m \in Methods, p \in Paths :
       /\ Routed(m, p, "deleteOne")
       /\ \E f \in Lookups, o \in Outcomes,
             v0 \in Verdicts(api), v1 \in Verdicts(api) :
            LET e == [Request(m, p) EXCEPT !.found = f[1], !.item = f[2],
                                            !.valNone = v0, !.valItem = v1,
                                            !.err = o[1], !.result = o[2]]
            IN  Serve(e, deleteOne(api, e, IdOf(e)))

GetSubEntity ==
  /\ phase = "idle"
  /\ \E m \in Methods, p \in Paths :
       /\ Routed(m, p, "getSubEntity")
       /\ \E f \in Lookups, xs \in AnyLists,
             v0 \in Verdicts(api), v1 \in Verdicts(api) :
            LET e == [Request(m, p) EXCEPT !.found = f[1], !.item = f[2],
                                            !.valNone = v0, !.valItem = v1, !.sub = xs]
            IN  Serve(e, getSubEntity(api, e, IdOf(e), RouteOf(e).sub))

\* The handler has returned and the response is sent: nothing of the request
\* is kept.
Release ==
  /\ phase = "done"
  /\ phase' = "idle"
  /\ req' = NoRequest
  /\ resp' = NoResponse
  /\ trace' = <<>>
  /\ UNCHANGED <<api, routes>>

Next ==
  \/ RegisterAPI
  \/ GetAll
  \/ GetAllPage
  \/ Search
  \/ GetOne
  \/ CreateOne
  \/ MutateOne
  \/ DeleteOne
  \/ GetSubEntity
  \/ Release

Spec == Init /\ [][Next]_vars

-----------------------------------------------------------------------------
(* Vocabulary of the properties *)

Done    == phase = "done"
Handler == IF Done THEN RouteOf(req).handler ELSE "none"

ItemAddressed == {"getOne", "mutateOne", "deleteOne", "getSubEntity"}

CallsOf(t, fn)  == {i \in DOMAIN t : t[i].fn = fn}
Called(fn)      == CallsOf(trace, fn) # {}
CountCalls(fn)  == Cardinality(CallsOf(trace, fn))

\* Find was invoked in this request and reported found / not-found
FindReportedFound    == Done /\ Called("Find") /\ req.found
FindReportedNotFound == Done /\ Called("Find") /\ ~req.found

\* Mutate, Delete, a sub-entity getter, Dto
EffectFns == {"Mutate", "Delete", "Get", "Dto"}
NoEffect(t) == \A i \in DOMAIN t : t[i].fn \notin EffectFns

\* The handler a route is bound to, run on a request
Handle(a, rt, e) ==
  CASE rt.handler = "getAll"       -> getAll(a, e)
    [] rt.handler = "getAllPage"   -> getAllPage(a, e, Params(rt, e.path))
    [] rt.handler = "search"       -> search(a, e)
    [] rt.handler = "getOne"       -> getOne(a, e, Params(rt, e.path))
    [] rt.handler = "createOne"    -> createOne(a, e)
    [] rt.handler = "mutateOne"    -> mutateOne(a, e, Params(rt, e.path))
    [] rt.handler = "deleteOne"    -> deleteOne(a, e, Params(rt, e.path))
    [] rt.handler = "getSubEntity" -> getSubEntity(a, e, Params(rt, e.path), rt.sub)

-----------------------------------------------------------------------------
(* C1: in get-one, update, delete and sub-entity list, when Find has        *)
(* reported not-found and the Validator is set and denies the call made     *)
(* with no item, the response is 401; and whenever any response is 404 the  *)
(* Validator is nil or granted the call of that request.                    *)

C1_DeniedNotFoundIs401 ==
  Done =>
    /\ (Handler \in ItemAddressed /\ FindReportedNotFound
          /\ api.Validator /\ ~req.valNone)
         => resp.status = StatusUnauthorized
    /\ resp.status = StatusNotFound
         => (~api.Validator \/ (Called("Validator") /\ req.valNone))

C1_Witness ==
  /\ Handler = "mutateOne" /\ FindReportedNotFound
  /\ api.Validator /\ ~req.valNone
  /\ CountCalls("Validator") = 1
  /\ resp.status = StatusUnauthorized

-----------------------------------------------------------------------------
(* C2: existence non-interference.  For get-one, update, delete and         *)
(* sub-entity list, when the Validator denies both the call with no item    *)
(* and the call with the item, the run of the same request in which Find    *)
(* reports the opposite gives the same status and body, and neither run     *)
(* invokes Mutate, Delete, the sub-entity getter or Dto.                    *)

\* the same request with Find reporting the opposite
Twins(e) ==
  {[e EXCEPT !.found = f[1], !.item = f[2]] : f \in {g \in Lookups : g[1] # e.found}}

C2_ExistenceNonInterference ==
  (Done /\ Handler \in ItemAddressed /\ api.Validator /\ ~req.valNone /\ ~req.valItem)
    => \A t \in Twins(req) :
         LET twin == Handle(api, RouteOf(req), t)
         IN  /\ twin.resp = resp
             /\ NoEffect(trace)
             /\ NoEffect(twin.trace)

C2_Witness ==
  /\ Handler = "deleteOne" /\ FindReportedFound
  /\ api.Validator /\ ~req.valNone /\ ~req.valItem
  /\ resp.status = StatusUnauthorized
  /\ \E t \in Twins(req) : ~t.found

-----------------------------------------------------------------------------
(* C3: for create, update and search, a request whose body cannot be        *)
(* decoded is answered 400 and the Validator is invoked zero times.         *)

C3_BadBodyBeforeValidator ==
  (Done /\ Handler \in {"createOne", "mutateOne", "search"} /\ ~req.bodyOk)
    => (resp.status = StatusBadRequest /\ ~Called("Validator"))

(* C3 as amended: for create and update a request whose body cannot be      *)
(* decoded is answered 400 with the Validator invoked zero times; search    *)
(* invokes the Validator (when set) once, before parsing the body, answers  *)
(* a denial with 401, and answers an undecodable body with 400 only when    *)
(* the Validator is nil or grants; Search is not invoked.                   *)

C3_BadBodyCreateUpdate ==
  (Done /\ ~req.bodyOk) =>
    /\ Handler \in {"createOne", "mutateOne"}
         => (resp.status = StatusBadRequest /\ ~Called("Validator"))
    /\ Handler = "search"
         => /\ CountCalls("Validator") = (IF api.Validator THEN 1 ELSE 0)
            /\ resp.status = (IF api.Validator /\ ~req.valNone
                                THEN StatusUnauthorized ELSE StatusBadRequest)
            /\ ~Called("Search")

C3_Witness ==
  /\ Handler = "search" /\ ~req.bodyOk
  /\ api.Validator /\ req.valNone
  /\ Called("Validator")
  /\ resp.status = StatusBadRequest

-----------------------------------------------------------------------------
(* C4: the registered routes are GET /, GET /page/:id, GET /:id and one     *)
(* GET /:id/<subPath> per declared sub-entity, always; POST / and PUT /:id  *)
(* exactly when Mutate is non-nil; POST /filter exactly when Search is      *)
(* non-nil; DELETE /:id exactly when Delete is non-nil; and neither Create  *)
(* nor Validator changes what is registered.                                *)

RouteSet(rts) == {<<rts[i].method, rts[i].path>> : i \in DOMAIN rts}

ExpectedRouteSet(a) ==
  {<<"GET", <<>>>>, <<"GET", <<Seg_page, Seg_id>>>>, <<"GET", <<Seg_id>>>>}
    \cup {<<"GET", <<Seg_id, a.SubEntities[i]>>>> : i \in DOMAIN a.SubEntities}
    \cup (IF a.Mutate THEN {<<"POST", <<>>>>, <<"PUT", <<Seg_id>>>>} ELSE {})
    \cup (IF a.Search THEN {<<"POST", <<Seg_filter>>>>} ELSE {})
    \cup (IF a.Delete THEN {<<"DELETE", <<Seg_id>>>>} ELSE {})

-----------------------------------------------------------------------------
(* C5: the create handler is bound to a registered route only if Create is  *)
(* non-nil, so no request to a registered route makes the create handler    *)
(* call a nil Create.                                                       *)

C5_CreateRouteOnlyWithCreate ==
  (Done /\ Handler = "createOne") => resp # Panic

-----------------------------------------------------------------------------
(* C6: in get-one, update, delete and sub-entity list, when Find has        *)
(* reported found and the Validator is set and denies the call made with    *)
(* the found item, the response is 401 whatever else the request holds,     *)
(* and Mutate, Delete, the sub-entity getter and Dto are not invoked.       *)

C6_DeniedFoundIs401 ==
  (Handler \in ItemAddressed /\ FindReportedFound /\ api.Validator /\ ~req.valItem)
    => /\ resp.status = StatusUnauthorized
       /\ NoEffect(trace)

C6_Witness ==
  /\ Handler = "mutateOne" /\ FindReportedFound
  /\ api.Validator /\ ~req.valItem /\ req.valNone /\ ~req.err
  /\ trace[Len(trace)] = ValidatorCall(ActionMutate, <<req.item>>)
  /\ resp.status = StatusUnauthorized

-----------------------------------------------------------------------------
(* C7: in get-one, update, delete and sub-entity list, when Find has        *)
(* reported not-found and the Validator is nil or grants the call made      *)
(* with no item, the response is 404.                                       *)

C7_GrantedNotFoundIs404 ==
  (Handler \in ItemAddressed /\ FindReportedNotFound
     /\ (~api.Validator \/ req.valNone))
    => resp.status = StatusNotFound

C7_Witness ==
  /\ Handler = "getSubEntity" /\ FindReportedNotFound
  /\ api.Validator /\ req.valNone /\ ~req.valItem
  /\ trace[Len(trace)] = ValidatorCall(ActionGetOne, <<>>)
  /\ resp.status = StatusNotFound

-----------------------------------------------------------------------------
(* C8: no response body carries a value of the internal type T: every       *)
(* entity in a body has been converted with Dto.                            *)

C8_NoRawEntityInBody ==
  Done => \A i \in DOMAIN resp.body.vals : resp.body.vals[i].kind # "T"

-----------------------------------------------------------------------------
(* C9: a successful single-item response carries Dto of the item the        *)
(* delegated function returned in that request: of Find's item for          *)
(* get-one, of Create's for create, of Mutate's (not Find's) for update.    *)

SingleItemBody(item) ==
  /\ resp.body.kind = "json_one"
  /\ resp.body.vals = <<Dto(item)>>
  /\ trace[Len(trace)] = DtoCall(item)
  /\ CountCalls("Dto") = 1

C9_BodyIsDtoOfDelegatedResult ==
  (Done /\ resp.status = StatusOK) =>
    /\ Handler = "getOne"    => (SingleItemBody(req.item) /\ FindReportedFound)
    /\ Handler = "createOne" => (SingleItemBody(req.result) /\ Called("Create"))
    /\ Handler = "mutateOne" => (SingleItemBody(req.result) /\ Called("Mutate"))

C9_Witness ==
  /\ Handler = "mutateOne" /\ resp.status = StatusOK
  /\ FindReportedFound /\ req.item # req.result
  /\ resp.body.vals = <<Dto(req.result)>>

-----------------------------------------------------------------------------
(* C10: in delete, when Find has reported found, the Validator is nil or    *)
(* permits and Delete returns no error, Delete is invoked exactly once,     *)
(* with the found item, and the response is 200 with the text "deleted":    *)
(* Dto is not invoked and no item is in the body.                           *)

-----------------------------------------------------------------------------
(* C11: whenever Create, Mutate or Delete returns an error the request ends *)
(* with 500 and an empty body, Dto is not invoked and the failing function  *)
(* is not invoked a second time.                                            *)

\* the function of the handler that can fail, "" for the other handlers
FailingFn ==
  CASE Handler = "createOne" -> "Create"
    [] Handler = "mutateOne" -> "Mutate"
    [] Handler = "deleteOne" -> "Delete"
    [] OTHER                 -> ""

\* Create, Mutate or Delete was invoked in this request and returned an error
CollaboratorFailed == Done /\ FailingFn # "" /\ Called(FailingFn) /\ req.err

C11_ErrorIs500EmptyBody ==
  CollaboratorFailed =>
    /\ resp.status = StatusInternalServerError
    /\ resp.body.text = "" /\ resp.body.vals = <<>>
    /\ ~Called("Dto")
    /\ CountCalls(FailingFn) = 1

(* C11 as amended: whenever Create, Mutate or Delete returns an error the   *)
(* request ends with 500 and a body that holds only the status text of 500  *)
(* ("Internal Server Error", written by SendStatus), carrying neither the   *)
(* error nor any item; Dto is not invoked and the failing function is not   *)
(* invoked a second time.                                                   *)

C11_ErrorIs500StatusText ==
  CollaboratorFailed =>
    /\ resp.status = StatusInternalServerError
    /\ resp.body.kind = "status"
    /\ resp.body.text = "Internal Server Error"
    /\ resp.body.vals = <<>>
    /\ ~Called("Dto")
    /\ CountCalls(FailingFn) = 1
    /\ trace[Len(trace)].fn = FailingFn

C11_Witness ==
  /\ CollaboratorFailed /\ Handler = "createOne"
  /\ api.Validator
  /\ resp.status = StatusInternalServerError
  /\ trace[Len(trace)] = CreateCall(req.body)

-----------------------------------------------------------------------------
(* C12: in list-all, paged list, search and create the Validator, when set, *)
(* is invoked with zero items, and when it denies the response is 401 and   *)
(* none of FindAll, FindAllPage, Search and Create is invoked; in list-all, *)
(* paged list and search the denial comes before any data is fetched and    *)
(* before the body is parsed: the Validator call is the only call, and a    *)
(* denied request is answered 401 whether or not its body can be decoded.   *)

Aggregate      == {"getAll", "getAllPage", "search", "createOne"}
AggregateReads == {"getAll", "getAllPage", "search"}
FetchFns       == {"FindAll", "FindAllPage", "Search", "Create"}

C12_AggregateDenialFirst ==
  (Done /\ Handler \in Aggregate /\ api.Validator) =>
    /\ \A i \in CallsOf(trace, "Validator") : trace[i].items = <<>>
    /\ (Called("Validator") /\ ~req.valNone)
         => /\ resp.status = StatusUnauthorized
            /\ \A i \in DOMAIN trace : trace[i].fn \notin FetchFns
    /\ Handler \in AggregateReads
         => /\ trace # <<>> /\ trace[1].fn = "Validator"
            /\ ~req.valNone
                 => (resp.status = StatusUnauthorized /\ Len(trace) = 1)
    /\ Handler = "createOne" => (Called("Validator") <=> req.bodyOk)

C12_Witness ==
  /\ Handler = "search" /\ api.Validator /\ ~req.valNone /\ ~req.bodyOk
  /\ trace = <<ValidatorCall(ActionGetAll, <<>>)>>
  /\ resp.status = StatusUnauthorized

-----------------------------------------------------------------------------
(* C13: with a Validator set, every call to Create, Mutate, Delete, a       *)
(* sub-entity getter, FindAll, FindAllPage, Search or Dto is preceded in    *)
(* the same request by a Validator call that returned true; the Validator   *)
(* is invoked at most once per request, and only Find may be called before  *)
(* it.                                                                      *)

GuardedFns ==
  {"Create", "Mutate", "Delete", "Get", "FindAll", "FindAllPage", "Search", "Dto"}

C13_ValidatorPrecedesEffects ==
  (Done /\ api.Validator) =>
    /\ CountCalls("Validator") <= 1
    /\ \A i \in DOMAIN trace :
         trace[i].fn \in GuardedFns
           => \E j \in 1..(i - 1) :
                trace[j].fn = "Validator" /\ Validate(req, trace[j].items)
    /\ \A i \in CallsOf(trace, "Validator") :
         \A j \in 1..(i - 1) : trace[j].fn = "Find"

C13_Witness ==
  /\ Handler = "getSubEntity" /\ api.Validator
  /\ Len(trace) = 3
  /\ trace[1].fn = "Find" /\ trace[2].fn = "Validator" /\ trace[3].fn = "Get"
  /\ req.valItem /\ ~req.valNone

-----------------------------------------------------------------------------
(* C14: RegisterAPI registers the sub-entity routes in declaration order,   *)
(* all before the get-one route, and a GET for /<key>/<subPath> of a        *)
(* declared sub-entity is dispatched, for every key, to that sub-entity's   *)
(* handler (the first declared one when sub-entities share a subPath) with  *)
(* id = <key>, never to another handler.                                    *)

DeclaredSubPaths == {api.SubEntities[i] : i \in DOMAIN api.SubEntities}

FirstDeclared(s) ==
  CHOOSE i \in DOMAIN api.SubEntities :
    /\ api.SubEntities[i] = s
    /\ \A j \in DOMAIN api.SubEntities : api.SubEntities[j] = s => i <= j

\* where the route of the i-th sub-entity and the get-one route are registered
SubRouteAt(i) ==
  {r \in DOMAIN routes :
     routes[r] = Route("GET", <<Seg_id, api.SubEntities[i]>>, "getSubEntity", i)}
GetOneAt == {r \in DOMAIN routes : routes[r].handler = "getOne"}

SubRoutesInOrderBeforeGetOne ==
  /\ \A i \in DOMAIN api.SubEntities :
       /\ Cardinality(SubRouteAt(i)) = 1
       /\ \A r \in SubRouteAt(i), g \in GetOneAt : r < g
  /\ \A i \in DOMAIN api.SubEntities, j \in DOMAIN api.SubEntities :
       i < j => \A r \in SubRouteAt(i), q \in SubRouteAt(j) : r < q

\* the router's choice for GET /<k>/<s>
SubEntityDispatched(k, s) ==
  LET r == Dispatch(routes, "GET", <<k, s>>)
  IN  /\ r # 0
      /\ routes[r].handler = "getSubEntity"
      /\ routes[r].sub = FirstDeclared(s)
      /\ Params(routes[r], <<k, s>>) = k

\* a served GET /<k>/<s> ran the sub-entity handler on key k
SubEntityServed ==
  /\ Handler = "getSubEntity"
  /\ trace[1] = FindCall(req.path[1])
  /\ \A i \in CallsOf(trace, "Get") : trace[i].sub = FirstDeclared(req.path[2])

SubEntityRequest ==
  /\ Done /\ req.method = "GET" /\ Len(req.path) = 2
  /\ req.path[2] \in DeclaredSubPaths

C14_SubEntityDispatchEveryKey ==
  SubEntityRequest => SubEntityServed

(* C14 as amended: RegisterAPI registers the sub-entity routes in           *)
(* declaration order, all before the get-one route, and a GET for           *)
(* /<key>/<subPath> of a declared sub-entity is dispatched, for every key   *)
(* other than the literal "page", to that sub-entity's handler (the first   *)
(* declared one when sub-entities share a subPath) with id = <key>; for the *)
(* key "page" the earlier route GET /page/:id takes it and the paged list   *)
(* runs with the subPath as its page token.                                 *)

C14_SubEntityDispatchExceptPage ==
  /\ phase = "idle" =>
       /\ SubRoutesInOrderBeforeGetOne
       /\ \A k \in Keys \ {Seg_page}, s \in DeclaredSubPaths :
            SubEntityDispatched(k, s)
       /\ \A s \in DeclaredSubPaths :
            routes[Dispatch(routes, "GET", <<Seg_page, s>>)].handler = "getAllPage"
  /\ SubEntityRequest =>
       IF req.path[1] = Seg_page
         THEN Handler = "getAllPage" /\ ~Called("Find")
         ELSE SubEntityServed

C14_Witness ==
  /\ SubEntityRequest /\ req.path = <<Key_7, Seg_tags>>
  /\ api.SubEntities = <<Seg_tags, Seg_tags>>
  /\ req.found /\ Called("Get")
  /\ trace[Len(trace)] = GetterCall(1, req.item)

-----------------------------------------------------------------------------
(* C15: a paged list whose page token cannot be parsed as a signed 64-bit   *)
(* decimal integer is never answered 400: when the Validator is nil or      *)
(* grants, FindAllPage is invoked exactly once with token 0 and its Page is *)
(* returned unchanged with 200; when the Validator denies, the answer is    *)
(* 401.                                                                     *)

\* the tokens of the model that are not decimal numbers / not in int64's range
NonNumericTokens  == {Seg_page, Seg_tags, Seg_notes}
OutOfRangeTokens  == {Key_big, Key_negbig}

PagedWithToken(tokens) ==
  Done /\ Handler = "getAllPage" /\ IdOf(req) \in tokens

\* the paged list ran FindAllPage once, with token i, and returned its Page
PageFetchedWith(i) ==
  /\ CountCalls("FindAllPage") = 1
  /\ \A c \in CallsOf(trace, "FindAllPage") : trace[c] = FindAllPageCall(i)
  /\ resp.status = StatusOK
  /\ resp.body.kind = "json_page"
  /\ resp.body.vals = req.list

PagedOutcome(i) ==
  /\ resp.status # StatusBadRequest
  /\ IF api.Validator /\ ~req.valNone
       THEN resp.status = StatusUnauthorized /\ ~Called("FindAllPage")
       ELSE PageFetchedWith(i)

-----------------------------------------------------------------------------
(* C16: update runs body-parse, Find, Validator, Mutate, Dto in that order, *)
(* each step only when the previous one succeeded: a body that cannot be    *)
(* decoded gives 400 with Find, Validator and Mutate never invoked; Mutate  *)
(* is invoked exactly once, with the item Find returned and the parsed      *)
(* body, only when Find reported found and the Validator is nil or granted  *)
(* the call with the item.                                                  *)

\* the functions called, in order
FnsOf(t) == [i \in DOMAIN t |-> t[i].fn]

\* the full sequence of an update, without the Validator when it is nil
UpdateSteps ==
  IF api.Validator THEN <<"Find", "Validator", "Mutate", "Dto">>
  ELSE <<"Find", "Mutate", "Dto">>

IsPrefix(p, q) == Len(p) <= Len(q) /\ \A i \in DOMAIN p : p[i] = q[i]

C16_UpdateStepOrder ==
  (Done /\ Handler = "mutateOne") =>
    /\ IsPrefix(FnsOf(trace), UpdateSteps)
    /\ ~req.bodyOk => (resp.status = StatusBadRequest /\ trace = <<>>)
    /\ req.bodyOk => (trace # <<>> /\ trace[1] = FindCall(IdOf(req)))
    /\ Called("Mutate")
         <=> (req.bodyOk /\ req.found /\ (~api.Validator \/ req.valItem))
    /\ CountCalls("Mutate") <= 1
    /\ \A i \in CallsOf(trace, "Mutate") : trace[i] = MutateCall(req.item, req.body)
    /\ Called("Dto") <=> (Called("Mutate") /\ ~req.err)

C16_Witness ==
  /\ Handler = "mutateOne" /\ api.Validator /\ req.valItem /\ ~req.valNone
  /\ FnsOf(trace) = <<"Find", "Validator", "Mutate", "Dto">>
  /\ trace[3] = MutateCall(req.item, req.body)
  /\ req.item # req.result

-----------------------------------------------------------------------------
(* C17: every Validator call carries the tag of the operation and the right *)
(* item argument: ActionGetAll for list-all, paged list and search,         *)
(* ActionGetOne for get-one and every sub-entity list, ActionCreate for     *)
(* create, ActionMutate for update, ActionDelete for delete; the same tag   *)
(* when Find reported found and when it reported not-found; zero items for  *)
(* the aggregate operations and when Find reported not-found, exactly the   *)
(* item Find returned when it reported found.                               *)

TagOf(handler) ==
  CASE handler \in {"getAll", "getAllPage", "search"} -> ActionGetAll
    [] handler \in {"getOne", "getSubEntity"}         -> ActionGetOne
    [] handler = "mutateOne"                          -> ActionMutate
    [] handler = "createOne"                          -> ActionCreate
    [] handler = "deleteOne"                          -> ActionDelete

ItemsArgument ==
  IF Handler \in ItemAddressed /\ req.found THEN <<req.item>> ELSE <<>>

C17_ValidatorTagAndItems ==
  Done =>
    \A i \in CallsOf(trace, "Validator") :
      /\ trace[i].action = TagOf(Handler)
      /\ trace[i].items = ItemsArgument

C17_Witness ==
  /\ Handler = "deleteOne" /\ FindReportedFound /\ api.Validator
  /\ trace[2] = ValidatorCall(ActionDelete, <<req.item>>)

-----------------------------------------------------------------------------
(* C18: every handler invocation ends with exactly one response, which is   *)
(* one of: 200 with a JSON body, 404, 401, 400, 500, or the plain "deleted" *)
(* confirmation; no handler finishes without a response, and nothing of a   *)
(* request is kept for the next.                                            *)

JSONKinds == {"json_one", "json_list", "json_page", "json_any"}

TerminalOutcome(r) ==
  \/ r.status = StatusOK /\ r.body.kind \in JSONKinds
  \/ r.status \in {StatusNotFound, StatusUnauthorized, StatusBadRequest,
                   StatusInternalServerError}
       /\ r.body.kind = "status"
  \/ r.status = StatusOK /\ r.body.kind = "text" /\ r.body.text = "deleted"

C18_OneTerminalOutcome ==
  /\ Done => TerminalOutcome(resp)
  /\ phase = "idle" => (req = NoRequest /\ resp = NoResponse /\ trace = <<>>)

====
